---------------------------- MODULE Spec2Model ----------------------------
(***************************************************************************)
(* goxsd, generate.go: the generator that turns a schema tree (xmlTree)    *)
(* into Go struct declarations.                                            *)
(*                                                                         *)
(* A string is a sequence of one-character strings, so that the            *)
(* normalizer (lint, lintTitle, typeName) is computed character by         *)
(* character as strings.Replacer, strings.Title, strings.Split and         *)
(* strings.Join compute it.  A rendered declaration is the record of what  *)
(* the templates print: the declared type name and the fields in the order *)
(* the "elem" template writes them.                                        *)
(***************************************************************************)
EXTENDS Naturals, Sequences, FiniteSets

VARIABLES
    pkg,        \* generator.pkg
    prefix,     \* generator.prefix
    exported,   \* generator.exported
    roots,      \* the roots handed to generator.do (node ids of Tree)
    types,      \* generator.types: the set of visited raw Names
    res,        \* do's private buffer `res`: the chunks written so far
    out,        \* the caller's io.Writer: the chunks committed to it
    stack,      \* the call stack of generator.execute
    ri,         \* position of do's loop over roots
    pc,         \* position of do: "init", "roots", "copy", "done"
    err,        \* the error do returns: "none", "render", "format", "copy"
    ident,      \* the raw string handed to the normalizer
    norm        \* the successive results of lint on ident

vars == <<pkg, prefix, exported, roots, types, res, out, stack, ri, pc, err, ident, norm>>

---------------------------------------------------------------------------
(* Bounds of the model. *)

\* longest list of roots handed to do
MaxRoots == 2
\* longest raw string handed to the normalizer on its own
MaxLen == 4

---------------------------------------------------------------------------
(* Characters and the strings package. *)

LowerCase == <<"a","b","c","d","e","f","g","h","i","j","k","l","m",
               "n","o","p","q","r","s","t","u","v","w","x","y","z">>
UpperCase == <<"A","B","C","D","E","F","G","H","I","J","K","L","M",
               "N","O","P","Q","R","S","T","U","V","W","X","Y","Z">>
Digits == {"0","1","2","3","4","5","6","7","8","9"}

IsLower(c) == \E i \in 1..Len(LowerCase) : LowerCase[i] = c
IsUpper(c) == \E i \in 1..Len(UpperCase) : UpperCase[i] = c

\* unicode.ToTitle on ASCII
ToTitle(c) ==
    IF IsLower(c) THEN UpperCase[CHOOSE i \in 1..Len(LowerCase) : LowerCase[i] = c]
    ELSE c

\* strings.isSeparator on ASCII: letters, digits and underscore are not
\* separators, every other character is
IsSeparator(c) == ~(IsLower(c) \/ IsUpper(c) \/ c \in Digits \/ c = "_")

\* strings.Title: the first letter of every word is title-cased; a word
\* starts after a separator (the string starts after a virtual space)
Title(s) ==
    [i \in 1..Len(s) |->
        IF IsSeparator(IF i = 1 THEN " " ELSE s[i-1]) THEN ToTitle(s[i]) ELSE s[i]]

\* strings.Split(s, sep) for a one-character sep
RECURSIVE Split(_, _)
Split(s, sep) ==
    IF \A i \in 1..Len(s) : s[i] # sep THEN <<s>>
    ELSE LET k == CHOOSE i \in 1..Len(s) :
                    /\ s[i] = sep
                    /\ \A j \in 1..(i-1) : s[j] # sep
         IN <<SubSeq(s, 1, k-1)>> \o Split(SubSeq(s, k+1, Len(s)), sep)

\* strings.Join(pieces, "")
RECURSIVE Join(_)
Join(pieces) == IF pieces = <<>> THEN <<>> ELSE Head(pieces) \o Join(Tail(pieces))

---------------------------------------------------------------------------
(* The initialism table and its Replacer. *)

\* the old strings of initialismPairs, in the declared order; the new string
\* of every pair is its old string in upper case
initialismOld == <<
    <<"A","p","i">>, <<"A","s","c","i","i">>, <<"C","p","u">>, <<"C","s","s">>,
    <<"D","n","s">>, <<"E","o","f">>, <<"G","u","i","d">>, <<"H","t","m","l">>,
    <<"H","t","t","p","s">>, <<"H","t","t","p">>, <<"I","d">>, <<"I","p">>,
    <<"J","s","o","n">>, <<"L","h","s">>, <<"Q","p","s">>, <<"R","a","m">>,
    <<"R","h","s">>, <<"R","p","c">>, <<"S","l","a">>, <<"S","m","t","p">>,
    <<"S","q","l">>, <<"S","s","h">>, <<"T","c","p">>, <<"T","l","s">>,
    <<"T","t","l">>, <<"U","d","p">>, <<"U","i","d">>, <<"U","i">>,
    <<"U","u","i","d">>, <<"U","r","i">>, <<"U","r","l">>, <<"U","t","f","8">>,
    <<"V","m">>, <<"X","m","l">>, <<"X","s","r","f">>, <<"X","s","s">> >>

initialismPairs ==
    [k \in 1..Len(initialismOld) |->
        <<initialismOld[k], [i \in 1..Len(initialismOld[k]) |-> ToTitle(initialismOld[k][i])]>>]

\* whether old string k of the table occurs in s at position i
OccursAt(k, s, i) ==
    LET old == initialismPairs[k][1]
    IN /\ i + Len(old) - 1 <= Len(s)
       /\ \A j \in 1..Len(old) : s[i + j - 1] = old[j]

\* the Replacer's lookup at position i: of the old strings that occur there,
\* the one declared first has the highest priority; 0 when none occurs
MatchAt(s, i) ==
    IF \E k \in 1..Len(initialismPairs) : OccursAt(k, s, i)
    THEN CHOOSE k \in 1..Len(initialismPairs) :
            /\ OccursAt(k, s, i)
            /\ \A h \in 1..(k-1) : ~OccursAt(h, s, i)
    ELSE 0

\* initialisms.Replace: one pass from left to right, no overlapping matches
RECURSIVE ReplaceFrom(_, _)
ReplaceFrom(s, i) ==
    IF i > Len(s) THEN <<>>
    ELSE LET k == MatchAt(s, i)
         IN IF k = 0 THEN <<s[i]>> \o ReplaceFrom(s, i + 1)
            ELSE initialismPairs[k][2] \o ReplaceFrom(s, i + Len(initialismPairs[k][1]))

initialismsReplace(s) == ReplaceFrom(s, 1)

---------------------------------------------------------------------------
(* The identifier normalizer. *)

squish(s) == SelectSeq(s, LAMBDA c : c # " ")

\* the pieces after the first are title-cased, then all are joined
CamelJoin(pieces) ==
    Join([i \in 1..Len(pieces) |-> IF i = 1 THEN pieces[i] ELSE Title(pieces[i])])

dashToCamel(name) ==
    LET s == Split(name, "-")
    IN IF Len(s) > 1 THEN CamelJoin(s) ELSE name

snakeToCamel(name) ==
    LET s == Split(name, "_")
    IN IF Len(s) > 1 THEN CamelJoin(s) ELSE name

lint(s) == snakeToCamel(dashToCamel(squish(initialismsReplace(s))))

\* a lintTitle that forgets strings.Title
lintNoTitle(s) == lint(s)

lintTitle(s) == lint(Title(s))

PrimitiveNames == { <<"b","o","o","l">>, <<"s","t","r","i","n","g">>, <<"i","n","t">>,
                    <<"f","l","o","a","t","6","4">>,
                    <<"t","i","m","e",".","T","i","m","e">> }

\* the typeName closure of prepareTemplates(pfx, exp)
typeName(pfx, exp, name) ==
    IF name \in PrimitiveNames THEN name
    ELSE LET n1 == IF pfx # <<>> THEN pfx \o Title(name) ELSE name
             n2 == IF exp THEN Title(n1) ELSE n1
         IN lint(n2)

---------------------------------------------------------------------------
(* The schema nodes (xmlTree values) the runs are drawn from.  Children    *)
(* are node ids, as the code's Children are pointers: a node may be shared *)
(* and the graph may be cyclic.                                            *)

Attr(name, type) == [Name |-> name, Type |-> type]

Node(name, type, attribs, children, cdata, list) ==
    [Name |-> name, Type |-> type, Attribs |-> attribs, Children |-> children,
     Cdata |-> cdata, List |-> list]

Tree == <<
    \* 1: the Order element: one attribute, one repeated child
    Node(<<"O","r","d","e","r">>, <<"O","r","d","e","r">>,
         <<Attr(<<"i","d">>, <<"i","n","t">>)>>, <<2>>, FALSE, FALSE),
    \* 2: its child line-item of type LineItem
    Node(<<"l","i","n","e","-","i","t","e","m">>, <<"L","i","n","e","I","t","e","m">>,
         <<>>, <<>>, FALSE, TRUE),
    \* 3: line_item, with a primitive child and a character-data child
    Node(<<"l","i","n","e","_","i","t","e","m">>, <<"L","i","n","e","I","t","e","m">>,
         <<>>, <<4, 5>>, FALSE, FALSE),
    \* 4: a primitive element (which nevertheless has a child)
    Node(<<"q","t","y">>, <<"i","n","t">>, <<>>, <<5>>, FALSE, FALSE),
    \* 5: a character-data element whose Type is a primitive name
    Node(<<"n","o","t","e">>, <<"s","t","r","i","n","g">>,
         <<Attr(<<"l","a","n","g">>, <<"s","t","r","i","n","g">>)>>, <<>>, TRUE, FALSE),
    \* 6 and 7: two elements that contain each other
    Node(<<"a">>, <<"a">>, <<>>, <<7, 4>>, FALSE, FALSE),
    Node(<<"b">>, <<"b">>, <<>>, <<6, 8>>, FALSE, TRUE),
    \* 8: another element named Order, of another shape
    Node(<<"O","r","d","e","r">>, <<"O","r","d","e","r">>, <<>>, <<5>>, TRUE, FALSE),
    \* 9: an element that contains itself, its Name with a space
    Node(<<"u","s","e","r"," ","i","d">>, <<"u","s","e","r"," ","i","d">>,
         <<>>, <<9, 2>>, FALSE, FALSE) >>

NodeIds == 1..Len(Tree)

\* the configurations and root lists a run is started with
Prefixes == { <<>>, <<"x">> }
Packages == { <<>>, <<"m">> }
RootLists == UNION { [1..n -> NodeIds] : n \in 0..MaxRoots }

---------------------------------------------------------------------------
(* fieldType and primitiveType. *)

fieldType(e) == IF e.Cdata THEN e.Name ELSE e.Type

\* a primitiveType that does not look at Cdata
primitiveTypeIgnoresCdata(e) == e.Type \in PrimitiveNames

primitiveType(e) ==
    IF e.Cdata THEN FALSE
    ELSE e.Type \in PrimitiveNames

---------------------------------------------------------------------------
(* The templates: what tt.Execute writes for one node. *)

\* template "Attr"
AttrField(a) ==
    [kind |-> "attr", field |-> lintTitle(a.Name), list |-> FALSE,
     type |-> lint(a.Type), tag |-> a.Name]

\* template "Child", with the typeName of prepareTemplates(pfx, exp)
ChildField(pfx, exp, c) ==
    [kind |-> "child", field |-> lintTitle(c.Name), list |-> c.List,
     type |-> typeName(pfx, exp, fieldType(c)), tag |-> c.Name]

\* template "Cdata"
CdataField(e) ==
    [kind |-> "cdata", field |-> lintTitle(e.Name), list |-> FALSE,
     type |-> lint(e.Type), tag |-> <<>>]

\* the fields of a declaration in the order the elem template writes them
ElemFields(pfx, exp, e) ==
    [i \in 1..Len(e.Attribs) |-> AttrField(e.Attribs[i])]
    \o [i \in 1..Len(e.Children) |-> ChildField(pfx, exp, Tree[e.Children[i]])]
    \o (IF e.Cdata THEN <<CdataField(e)>> ELSE <<>>)

\* the elem template of prepareTemplates(pfx, exp) on node n; `node` records
\* which node was rendered
ElemTemplate(pfx, exp, n) ==
    [kind |-> "decl", node |-> n, name |-> typeName(pfx, exp, Tree[n].Name),
     fields |-> ElemFields(pfx, exp, Tree[n]), complete |-> TRUE]

\* the text of every node under every configuration, computed once
Executed ==
    [pfx \in Prefixes, exp \in BOOLEAN, n \in NodeIds |-> ElemTemplate(pfx, exp, n)]

\* tt.Execute(out, root) under the generator's prefix and exported
Elem(n) == Executed[prefix, exported, n]

\* the package header do writes first
Header ==
    [kind |-> "header", node |-> 0, name |-> pkg, fields |-> <<>>, complete |-> TRUE]

---------------------------------------------------------------------------
(* generator.do and generator.execute. *)

Init ==
    /\ pkg \in Packages
    /\ prefix \in Prefixes
    /\ exported \in BOOLEAN
    /\ roots \in RootLists
    /\ types = {}
    /\ res = <<>>
    /\ out = <<>>
    /\ stack = <<>>
    /\ ri = 1
    /\ pc = "init"
    /\ err = "none"
    /\ ident = <<>>
    /\ norm = <<>>

Top == stack[Len(stack)]
Pop == SubSeq(stack, 1, Len(stack) - 1)
Frame(n) == [node |-> n, i |-> 0]
Advance == [stack EXCEPT ![Len(stack)].i = @ + 1]

\* a frame at the entry of execute, before the lookup in g.types
AtEntry == pc = "roots" /\ stack # <<>> /\ Top.i = 0
\* a frame inside execute's loop over root.Children
InLoop == pc = "roots" /\ stack # <<>> /\ Top.i >= 1

\* a lookup keyed on the Type instead of the Name
VisitedByType(n) == Tree[n].Type \in types

\* _, ok := g.types[root.Name]
Visited(n) == Tree[n].Name \in types

\* do, up to its loop: the fresh map, the templates, the package header
DoBegin ==
    /\ pc = "init"
    /\ types' = {}
    /\ res' = IF pkg # <<>> THEN <<Header>> ELSE <<>>
    /\ pc' = "roots"
    /\ UNCHANGED <<pkg, prefix, exported, roots, out, stack, ri, err, ident, norm>>

\* do's loop calls execute on the next root
DoNextRoot ==
    /\ pc = "roots"
    /\ stack = <<>>
    /\ ri <= Len(roots)
    /\ stack' = <<Frame(roots[ri])>>
    /\ ri' = ri + 1
    /\ UNCHANGED <<pkg, prefix, exported, roots, types, res, out, pc, err, ident, norm>>

\* execute returns at once on a visited Name
ExecuteSkip ==
    /\ AtEntry
    /\ Visited(Top.node)
    /\ stack' = Pop
    /\ UNCHANGED <<pkg, prefix, exported, roots, types, res, out, ri, pc, err, ident, norm>>

\* execute renders the node and marks its Name
ExecuteRender ==
    /\ AtEntry
    /\ ~Visited(Top.node)
    /\ res' = Append(res, Elem(Top.node))
    /\ types' = types \cup {Tree[Top.node].Name}
    /\ stack' = Advance
    /\ UNCHANGED <<pkg, prefix, exported, roots, out, ri, pc, err, ident, norm>>

\* a failing tt.Execute that was handed the caller's writer: what is
\* rendered reaches the output at once
ExecuteRenderFailFlush ==
    /\ AtEntry
    /\ ~Visited(Top.node)
    /\ res' = Append(res, [Elem(Top.node) EXCEPT !.complete = FALSE])
    /\ out' = res'
    /\ stack' = <<>>
    /\ err' = "render"
    /\ pc' = "done"
    /\ UNCHANGED <<pkg, prefix, exported, roots, types, ri, ident, norm>>

\* tt.Execute fails (a template cannot evaluate a field, as on a nil child)
\* after writing some part of the declaration to the buffer; the error is
\* returned through every pending execute and by do
ExecuteRenderFail ==
    /\ AtEntry
    /\ ~Visited(Top.node)
    /\ \E k \in 0..Len(Elem(Top.node).fields) :
          res' = Append(res, [Elem(Top.node) EXCEPT
                                 !.fields = SubSeq(@, 1, k), !.complete = FALSE])
    /\ stack' = <<>>
    /\ err' = "render"
    /\ pc' = "done"
    /\ UNCHANGED <<pkg, prefix, exported, roots, types, out, ri, ident, norm>>

\* a loop that does not move on from a primitive child
ExecutePrimitiveStay ==
    /\ InLoop
    /\ Top.i <= Len(Tree[Top.node].Children)
    /\ primitiveType(Tree[Tree[Top.node].Children[Top.i]])
    /\ UNCHANGED vars

\* a loop without the primitiveType test: execute is called on a primitive
\* child as on any other
ExecutePrimitiveRecurse ==
    /\ InLoop
    /\ Top.i <= Len(Tree[Top.node].Children)
    /\ primitiveType(Tree[Tree[Top.node].Children[Top.i]])
    /\ stack' = Append(Advance, Frame(Tree[Top.node].Children[Top.i]))
    /\ UNCHANGED <<pkg, prefix, exported, roots, types, res, out, ri, pc, err, ident, norm>>

\* the loop passes over a primitive child
ExecutePrimitive ==
    /\ InLoop
    /\ Top.i <= Len(Tree[Top.node].Children)
    /\ primitiveType(Tree[Tree[Top.node].Children[Top.i]])
    /\ stack' = Advance
    /\ UNCHANGED <<pkg, prefix, exported, roots, types, res, out, ri, pc, err, ident, norm>>

\* the loop calls execute on a child that is not primitive
ExecuteRecurse ==
    /\ InLoop
    /\ Top.i <= Len(Tree[Top.node].Children)
    /\ ~primitiveType(Tree[Tree[Top.node].Children[Top.i]])
    /\ stack' = Append(Advance, Frame(Tree[Top.node].Children[Top.i]))
    /\ UNCHANGED <<pkg, prefix, exported, roots, types, res, out, ri, pc, err, ident, norm>>

\* the loop is over: execute returns nil
ExecuteReturn ==
    /\ InLoop
    /\ Top.i > Len(Tree[Top.node].Children)
    /\ stack' = Pop
    /\ UNCHANGED <<pkg, prefix, exported, roots, types, res, out, ri, pc, err, ident, norm>>

\* imports.Process accepts the buffer; it lays the text out anew and keeps
\* the declarations and their order
DoFormat ==
    /\ pc = "roots"
    /\ stack = <<>>
    /\ ri > Len(roots)
    /\ pc' = "copy"
    /\ UNCHANGED <<pkg, prefix, exported, roots, types, res, out, stack, ri, err, ident, norm>>

\* imports.Process rejects the buffer (the text does not parse as Go): do
\* returns its error
DoFormatFail ==
    /\ pc = "roots"
    /\ stack = <<>>
    /\ ri > Len(roots)
    /\ err' = "format"
    /\ pc' = "done"
    /\ UNCHANGED <<pkg, prefix, exported, roots, types, res, out, stack, ri, ident, norm>>

\* io.Copy writes the formatted buffer to the caller's writer
DoCopy ==
    /\ pc = "copy"
    /\ out' = out \o res
    /\ pc' = "done"
    /\ UNCHANGED <<pkg, prefix, exported, roots, types, res, stack, ri, err, ident, norm>>

\* the caller's writer fails after taking some part of the buffer
DoCopyFail ==
    /\ pc = "copy"
    /\ \E k \in 0..Len(res) : out' = out \o SubSeq(res, 1, k)
    /\ err' = "copy"
    /\ pc' = "done"
    /\ UNCHANGED <<pkg, prefix, exported, roots, types, res, stack, ri, ident, norm>>

Next ==
    \/ DoBegin
    \/ DoNextRoot
    \/ ExecuteSkip
    \/ ExecuteRender
    \/ ExecuteRenderFail
    \/ ExecutePrimitive
    \/ ExecuteRecurse
    \/ ExecuteReturn
    \/ DoFormat
    \/ DoFormatFail
    \/ DoCopy
    \/ DoCopyFail

Spec == Init /\ [][Next]_vars

\* do is one sequential call: whenever it can take a step it takes one
FairSpec == Init /\ [][Next]_vars /\ WF_vars(Next)

---------------------------------------------------------------------------
(* The normalizer on its own: lint applied to a raw string, then to its    *)
(* own result.                                                             *)

LintChars == {"i", "d", "I", "_", "-"}
RawStrings == UNION { [1..n -> LintChars] : n \in 0..MaxLen }

LintInit ==
    /\ ident \in RawStrings
    /\ norm = <<>>
    /\ pkg = <<>>
    /\ prefix = <<>>
    /\ exported = FALSE
    /\ roots = <<>>
    /\ types = {}
    /\ res = <<>>
    /\ out = <<>>
    /\ stack = <<>>
    /\ ri = 1
    /\ pc = "init"
    /\ err = "none"

Normalize ==
    /\ Len(norm) < 2
    /\ norm' = Append(norm, lint(IF norm = <<>> THEN ident ELSE norm[Len(norm)]))
    /\ UNCHANGED <<ident, pkg, prefix, exported, roots, types, res, out, stack, ri, pc, err>>

LintNext == Normalize

LintSpec == LintInit /\ [][LintNext]_vars

---------------------------------------------------------------------------
(* What a run has emitted. *)

\* the declarations among the chunks of a buffer
Decls(buf) == SelectSeq(buf, LAMBDA c : c.kind = "decl")
\* the declarations that were rendered to the end
Rendered(buf) == SelectSeq(buf, LAMBDA c : c.kind = "decl" /\ c.complete)
\* the nodes rendered, in the order of their declarations
RenderedNodes(buf) == [i \in 1..Len(Rendered(buf)) |-> Rendered(buf)[i].node]
IsRendered(n) == \E i \in 1..Len(Rendered(res)) : Rendered(res)[i].node = n

RawName(n) == Tree[n].Name
DoneOk == pc = "done" /\ err = "none"

\* the children of n the walker calls execute on
WalkedChildren(n) ==
    { Tree[n].Children[k] : k \in { j \in 1..Len(Tree[n].Children) :
                                      ~primitiveType(Tree[Tree[n].Children[j]]) } }
\* the nodes execute has been called on by the end of a successful run
Reached ==
    { roots[k] : k \in 1..Len(roots) }
    \cup UNION { WalkedChildren(n) : n \in { m \in NodeIds : IsRendered(m) } }

---------------------------------------------------------------------------
(* C1 *)

\* the declarations in the buffer carry pairwise distinct raw Names, and a
\* run that succeeds has exactly one declaration for the Name of every root
OnePerName ==
    /\ \A i, j \in 1..Len(Decls(res)) :
          i # j => RawName(Decls(res)[i].node) # RawName(Decls(res)[j].node)
    /\ DoneOk =>
          \A k \in 1..Len(roots) :
             Cardinality({ i \in 1..Len(Decls(out)) :
                             RawName(Decls(out)[i].node) = RawName(roots[k]) }) = 1

\* a call of execute on a visited Name writes nothing, marks nothing and
\* returns without entering the loop over the children
SkipEntirely ==
    (AtEntry /\ Visited(Top.node)) => (res' = res /\ types' = types /\ stack' = Pop)

\* C1: within one run at most one declaration is emitted per distinct raw
\* Name: a node whose raw Name is already visited is skipped entirely
\* (nothing rendered, no child recursed into), two roots of the same Name
\* yield one declaration for it, and every root Name gets its declaration.
C1_Dedup == [](OnePerName) /\ [][SkipEntirely]_vars

\* two different root nodes of one Name, one declaration for it
C1_Witness ==
    /\ DoneOk
    /\ Len(roots) = 2
    /\ roots[1] # roots[2]
    /\ RawName(roots[1]) = RawName(roots[2])
    /\ Cardinality({ i \in 1..Len(Decls(out)) :
                       RawName(Decls(out)[i].node) = RawName(roots[1]) }) = 1

---------------------------------------------------------------------------
(* C2 *)

\* C2: a primitive node (Cdata false, Type a primitive name) never receives
\* a declaration of its own and is never recursed into, also when it is
\* passed to generate as a root.
C2_PrimitiveNeverDeclared ==
    /\ \A i \in 1..Len(Decls(res)) : ~primitiveType(Tree[Decls(res)[i].node])
    /\ \A p \in 1..Len(stack) : stack[p].i >= 1 => ~primitiveType(Tree[stack[p].node])

---------------------------------------------------------------------------
(* C3 *)

\* C3: when the rendering of a node or the final formatting fails, the run
\* ends at that failure with the error, and nothing has been written to the
\* caller's output: what was rendered before is in the private buffer only.
\* (Nothing reaches the output before the final copy in any case.)
C3_NoPartialCommit ==
    /\ err \in {"render", "format"} => (pc = "done" /\ out = <<>> /\ ~ENABLED Next)
    /\ pc \in {"init", "roots", "copy"} => (out = <<>> /\ err = "none")

\* a rendering failure after two declarations were rendered
C3_Witness ==
    /\ err = "render"
    /\ Len(Rendered(res)) >= 2
    /\ out = <<>>

---------------------------------------------------------------------------
(* C4 *)

\* the nodes the walker can get to from the nodes of S
RECURSIVE WalkClosure(_)
WalkClosure(S) ==
    LET T == S \cup UNION { WalkedChildren(n) : n \in S }
    IN IF T = S THEN S ELSE WalkClosure(T)

\* a node that the walker gets to from itself
OnCycle(n) == n \in WalkClosure(WalkedChildren(n))

\* the roots lead the walker to a node that is not primitive and lies on a
\* cycle through Children
WalksCycle ==
    \E n \in WalkClosure({ roots[k] : k \in 1..Len(roots) }) :
        ~primitiveType(Tree[n]) /\ OnCycle(n)

\* C4 as stated: a run over a node graph with a cycle through Children never
\* terminates; so no such run reaches the end of do (here: not even the
\* runs in which nothing fails).
C4_CycleNeverTerminates == WalksCycle => ~DoneOk

\* C4 as amended: the walker has no cycle detection of its own, but every
\* run terminates, over a cyclic node graph as well: a node whose Name is
\* visited is skipped, so no Name is walked twice.
C4_Terminates == <>(pc = "done")

\* a run over the two nodes that contain each other has rendered both and
\* ended without error
C4_Witness ==
    /\ DoneOk
    /\ WalksCycle
    /\ \A n \in WalkClosure({ roots[k] : k \in 1..Len(roots) }) :
          OnCycle(n) => \E i \in 1..Len(Decls(out)) : Decls(out)[i].node = n

---------------------------------------------------------------------------
(* C5 *)

\* a Cdata node is never primitive
CdataNotPrimitive == \A n \in NodeIds : Tree[n].Cdata => ~primitiveType(Tree[n])

\* every Cdata child the loop of a pending execute has passed was handed to
\* execute: its call is the frame above, or it is over and the Name visited
CdataChildRecursed ==
    \A p \in 1..Len(stack) :
       \A k \in 1..Len(Tree[stack[p].node].Children) :
          LET c == Tree[stack[p].node].Children[k]
          IN (k < stack[p].i /\ Tree[c].Cdata) =>
                \/ Visited(c)
                \/ /\ p < Len(stack)
                   /\ k = stack[p].i - 1
                   /\ stack[p+1] = Frame(c)

\* the type name made of each node's own Name, under every configuration,
\* and the normalized Type of each node
OwnTypeName ==
    [pfx \in Prefixes, exp \in BOOLEAN, n \in NodeIds |-> typeName(pfx, exp, Tree[n].Name)]
LintedType == [n \in NodeIds |-> lint(Tree[n].Type)]

\* in a rendered declaration the field of a Cdata child has the type named
\* after the child's own Name
CdataChildFieldType ==
    \A i \in 1..Len(Rendered(res)) :
       LET d == Rendered(res)[i]
           e == Tree[d.node]
       IN \A k \in 1..Len(e.Children) :
             Tree[e.Children[k]].Cdata =>
                /\ d.fields[Len(e.Attribs) + k].kind = "child"
                /\ d.fields[Len(e.Attribs) + k].type = OwnTypeName[prefix, exported, e.Children[k]]

\* the declaration of a Cdata node ends with its character-data field, the
\* only one, after the attribute and child fields
TrailingCdata(d) ==
    /\ d.fields # <<>>
    /\ d.fields[Len(d.fields)].kind = "cdata"
    /\ d.fields[Len(d.fields)].type = LintedType[d.node]
    /\ \A j \in 1..(Len(d.fields) - 1) : d.fields[j].kind \in {"attr", "child"}

CdataDeclTrailing ==
    \A i \in 1..Len(Rendered(res)) :
       Tree[Rendered(res)[i].node].Cdata => TrailingCdata(Rendered(res)[i])

\* C5 as stated: a node with Cdata = true always receives its own
\* declaration, ending with the character-data field: at the end of a run
\* every Cdata node execute was called on has the declaration rendered from
\* it.
C5_CdataAlwaysOwnDecl ==
    DoneOk =>
       \A n \in Reached :
          Tree[n].Cdata =>
             \E i \in 1..Len(Decls(out)) :
                Decls(out)[i].node = n /\ TrailingCdata(Decls(out)[i])

\* C5 as amended: a node with Cdata = true is never classified as primitive,
\* the walker calls execute on it when it is a child, its parent's field
\* refers to the type named after the node's own Name, and a declaration
\* rendered from it ends with the character-data field after all attribute
\* and child fields; at the end of a successful run it has its own
\* declaration unless a different node of the same raw Name was rendered
\* (then it was skipped, and the one declaration of that Name is the other
\* node's).
C5_CdataWrapped ==
    /\ CdataNotPrimitive
    /\ CdataChildRecursed
    /\ CdataChildFieldType
    /\ CdataDeclTrailing
    /\ DoneOk =>
          \A n \in Reached :
             Tree[n].Cdata =>
                \/ IsRendered(n)
                \/ \E m \in NodeIds \ {n} : RawName(m) = RawName(n) /\ IsRendered(m)

\* a Cdata child whose Type is a primitive name has been rendered, after
\* its parent, with the trailing field
C5_Witness ==
    /\ DoneOk
    /\ \E i, j \in 1..Len(Decls(out)) :
          LET d == Decls(out)[j]
              parent == Tree[Decls(out)[i].node]
          IN /\ i < j
             /\ \E k \in 1..Len(parent.Children) : parent.Children[k] = d.node
             /\ Tree[d.node].Cdata
             /\ Tree[d.node].Type \in PrimitiveNames
             /\ TrailingCdata(d)

---------------------------------------------------------------------------
(* C6 *)

\* letters, digits and underscores only
IsIdentifier(s) ==
    \A i \in 1..Len(s) : IsLower(s[i]) \/ IsUpper(s[i]) \/ s[i] \in Digits \/ s[i] = "_"

\* C6: normalization is idempotent on valid identifiers: for every raw
\* string that consists of letters, digits and underscores,
\* lint(lint(x)) = lint(x).
C6_Idempotent ==
    (IsIdentifier(ident) /\ Len(norm) = 2) => norm[2] = norm[1]

---------------------------------------------------------------------------
(* C7 *)

\* the run of the example: the Order root alone, no prefix configured
OrderRun == roots = <<1>> /\ prefix = <<>> /\ DoneOk

\* Order's attribute field: ID int, tagged id
OrderAttrField ==
    [kind |-> "attr", field |-> <<"I","D">>, list |-> FALSE,
     type |-> <<"i","n","t">>, tag |-> <<"i","d">>]

\* Order's child field under the given field name: a list of LineItem,
\* tagged line-item
OrderChildField(fieldName) ==
    [kind |-> "child", field |-> fieldName, list |-> TRUE,
     type |-> <<"L","i","n","e","I","t","e","m">>,
     tag |-> <<"l","i","n","e","-","i","t","e","m">>]

\* two declarations, Order and then the child's, and Order's declaration is
\* the attribute field followed by the child field of the given name
OrderOutput(fieldName) ==
    /\ Len(Decls(out)) = 2
    /\ Decls(out)[1].node = 1
    /\ Decls(out)[1].name = <<"O","r","d","e","r">>
    /\ Decls(out)[2].node = 2
    /\ Decls(out)[1].fields = <<OrderAttrField, OrderChildField(fieldName)>>

\* C7 as stated: the run on the Order example emits exactly two
\* declarations, Order and then the child's, and Order's declaration has
\* the field `ID int` tagged id followed by the field
\* `LineItems []LineItem` tagged line-item.
C7_OrderLineItems ==
    OrderRun => OrderOutput(<<"L","i","n","e","I","t","e","m","s">>)

\* C7 as amended: the same, with the child field named after the child's
\* own normalized Name, in the singular: `LineItem []LineItem` tagged
\* line-item.
C7_OrderLineItem ==
    OrderRun => OrderOutput(<<"L","i","n","e","I","t","e","m">>)

\* the example has run to its end and committed its two declarations
C7_Witness == OrderRun /\ Len(Decls(out)) = 2 /\ Len(Decls(out)[1].fields) = 2

---------------------------------------------------------------------------
(* C8 *)

\* the depth-first pre-order walk from node n, children in their given
\* order, that passes over primitive children and over every node whose
\* raw Name the walk has met before; acc = <<nodes in order, Names met>>
RECURSIVE PreOrderNode(_, _), PreOrderChildren(_, _, _)
PreOrderNode(n, acc) ==
    IF RawName(n) \in acc[2] THEN acc
    ELSE PreOrderChildren(n, 1, <<Append(acc[1], n), acc[2] \cup {RawName(n)}>>)
PreOrderChildren(n, k, acc) ==
    IF k > Len(Tree[n].Children) THEN acc
    ELSE LET c == Tree[n].Children[k]
         IN PreOrderChildren(n, k + 1,
                IF primitiveType(Tree[c]) THEN acc ELSE PreOrderNode(c, acc))

RECURSIVE PreOrderRoots(_, _, _)
PreOrderRoots(rs, k, acc) ==
    IF k > Len(rs) THEN acc
    ELSE PreOrderRoots(rs, k + 1, PreOrderNode(rs[k], acc))

PreOrder(rs) == PreOrderRoots(rs, 1, <<(<<>>), {}>>)[1]

IsPrefix(s, t) == Len(s) <= Len(t) /\ s = SubSeq(t, 1, Len(s))

\* C8: the declarations are emitted in depth-first pre-order of the input
\* (roots in order, Children in order), restricted to the children that are
\* not primitive and to the first occurrence of each raw Name: what has been
\* rendered is at every moment a prefix of that order and, at the end of a
\* successful run, the whole of it; and a node is rendered and its Name
\* visited before any of its children is visited (every pending call below
\* the top of the stack is inside its loop, its node rendered and marked).
C8_PreOrder ==
    /\ IsPrefix(RenderedNodes(res), PreOrder(roots))
    /\ DoneOk => RenderedNodes(out) = PreOrder(roots)
    /\ \A p \in 1..Len(stack) :
          (p < Len(stack) \/ stack[p].i >= 1) =>
             /\ stack[p].i >= 1
             /\ Visited(stack[p].node)
             /\ IsRendered(stack[p].node)

\* a run has emitted a parent, then a grandchild below its first child,
\* before the parent's later child
C8_Witness ==
    /\ DoneOk
    /\ roots = <<6, 3>>
    /\ RenderedNodes(out) = <<6, 7, 8, 5, 3>>

---------------------------------------------------------------------------
(* C9 *)

\* C9: at the end of every successful run, every type name that is not
\* primitive and is written as the type of a child field of an emitted
\* declaration is the declared name of a declaration emitted in the run.
C9_ReferentialClosure ==
    DoneOk =>
       \A i \in 1..Len(Decls(out)) :
          \A k \in 1..Len(Decls(out)[i].fields) :
             LET f == Decls(out)[i].fields[k]
             IN (f.kind = "child" /\ f.type \notin PrimitiveNames) =>
                   \E j \in 1..Len(Decls(out)) : Decls(out)[j].name = f.type

---------------------------------------------------------------------------
(* C10 *)

\* C10: within one run no two emitted declarations carry the same declared
\* type name, also when the raw Names differ only in separators or casing.
C10_UniqueDeclaredNames ==
    \A i, j \in 1..Len(Decls(out)) :
       i # j => Decls(out)[i].name # Decls(out)[j].name

===========================================================================
